---- MODULE Spec2Model ----
(***************************************************************************)
(* Model of src/main.rs: the poll loop of the Escape from Tarkov status    *)
(* webhook.  One process, sequential; the model yields at every .await.    *)
(***************************************************************************)
EXTENDS Integers, Sequences, FiniteSets

\* ------------------------------------------------------------------ bounds

\* Seconds of run time the clock of the timing specification covers.
MaxTime == 300

\* Longest status list the upstream API returns in the model.
MaxEvents == 2

\* Cap of the per-id notification counter (history variable).
MaxCount == 3

\* ------------------------------------------------------------ input domains

\* time::interval(Duration::from_secs(30))
Period == 30

\* Seconds one iteration of the loop (fetch, translations, sends) can take: less
\* than a period, more than one period, more than two.
Durations == {5, 40, 70}

Ids == {"E1", "E2"}

Contents == {"a", "b"}

\* The numeric type code the upstream API gives the events of an incident: a
\* known code (ServerIssues) for E1, a code the program does not know for E2.
CodeOf(id) == IF id = "E1" THEN 2 ELSE 7

\* Option<DateTime<Utc>>: <<>> is None, <<t>> is Some(t).
None == <<>>

Some(t) == <<t>>

Times == {10}

SolveTimes == {None, Some(20)}

\* ------------------------------------------------------------- EventType

\* serde_repr with #[serde(other)] on Unknown: any code other than 1 and 2
\* deserializes to Unknown.
EventTypeFromRepr(code) ==
    CASE code = 1 -> "UpdateInstallation"
      [] code = 2 -> "ServerIssues"
      [] OTHER -> "Unknown"

EventTypeToStringKnownOnly(t) ==
    CASE t = "UpdateInstallation" -> "Installation de mise à jour"
      [] OTHER -> "Problèmes de serveur"

\* impl fmt::Display for EventType
EventTypeToString(t) ==
    CASE t = "UpdateInstallation" -> "Installation de mise à jour"
      [] t = "ServerIssues" -> "Problèmes de serveur"
      [] OTHER -> "Inconnu"

\* ------------------------------------------------------------------ Event

\* One object of the JSON array of the status API.
JsonEvents ==
    {[id |-> i, content |-> c, type |-> CodeOf(i), time |-> t, solveTime |-> s] :
        i \in Ids, c \in Contents, t \in Times, s \in SolveTimes}

\* #[derive(Deserialize)] struct Event
DeserializeEvent(j) ==
    [id |-> j.id, content |-> j.content, event_type |-> EventTypeFromRepr(j.type),
     time |-> j.time, solve_time |-> j.solveTime]

SeqsUpTo(S, n) == UNION {[1..k -> S] : k \in 0..n}

\* The bodies of a 2xx answer of the status API that decode as Vec<Event>.
JsonBodies == SeqsUpTo(JsonEvents, MaxEvents)

\* resp.json::<Vec<Event>>()
DeserializeEvents(body) == [i \in 1..Len(body) |-> DeserializeEvent(body[i])]

\* ---------------------------------------------------------- try_translate

\* What the DeepL request can come back with.
DeeplResponses ==
    {[kind |-> "transport_error", translations |-> <<>>],
     [kind |-> "status_error", translations |-> <<>>],
     [kind |-> "undecodable", translations |-> <<>>]}
    \cup {[kind |-> "ok", translations |-> t] : t \in {<<>>, <<"fr">>, <<"fr", "alt">>}}

\* try_translate: the text it returns, and whether it panics (the unwrap of
\* resp.json() on a 2xx answer whose body does not decode).
TryTranslate(resp, text) ==
    CASE resp.kind = "undecodable" -> [panic |-> TRUE, text |-> text]
      [] resp.kind = "ok" /\ Len(resp.translations) > 0 ->
            [panic |-> FALSE, text |-> resp.translations[1]]
      [] OTHER -> [panic |-> FALSE, text |-> text]

\* ---------------------------------------------------------------- message

\* format!("<t:{}:R>", ts)
RelativeTime(ts) == <<"<t:", ts, ":R>">>

\* The closure given to webhook_client.send: the message built for an event.
BuildMessageSinceOpened(event, translated) ==
    [username |-> "Escape from Tarkov Status",
     title |-> EventTypeToString(event.event_type),
     thumbnail |-> "https://www.escapefromtarkov.com/themes/eft/images/logo.png",
     description |-> translated,
     url |-> "https://status.escapefromtarkov.com",
     fields |->
        IF event.solve_time # None
        THEN <<[name |-> "Résolu depuis", value |-> RelativeTime(event.time),
                inline |-> TRUE],
               [name |-> "Status", value |-> "Résolu :white_check_mark:",
                inline |-> FALSE]>>
        ELSE <<[name |-> "Depuis", value |-> RelativeTime(event.time), inline |-> TRUE],
               [name |-> "Status", value |-> "Hors ligne :negative_squared_cross_mark:",
                inline |-> FALSE]>>,
     color |-> IF event.solve_time # None THEN "65280" ELSE "16711680"]

BuildMessage(event, translated) ==
    [username |-> "Escape from Tarkov Status",
     title |-> EventTypeToString(event.event_type),
     thumbnail |-> "https://www.escapefromtarkov.com/themes/eft/images/logo.png",
     description |-> translated,
     url |-> "https://status.escapefromtarkov.com",
     fields |->
        IF event.solve_time # None
        THEN <<[name |-> "Résolu depuis", value |-> RelativeTime(event.solve_time[1]),
                inline |-> TRUE],
               [name |-> "Status", value |-> "Résolu :white_check_mark:",
                inline |-> FALSE]>>
        ELSE <<[name |-> "Depuis", value |-> RelativeTime(event.time), inline |-> TRUE],
               [name |-> "Status", value |-> "Hors ligne :negative_squared_cross_mark:",
                inline |-> FALSE]>>,
     color |-> IF event.solve_time # None THEN "65280" ELSE "16711680"]

\* ------------------------------------------------------------------ state

VARIABLES
    pc,                 \* where main is suspended (an .await) or has ended
    saved_events,       \* HashMap<String, Event>
    events,             \* Vec<Event> of the current iteration
    idx,                \* position of `for event in events.iter()`
    translated_content, \* result of try_translate, <<>> outside translate..send
    message,            \* the webhook message in flight, <<>> when none is
    body,               \* history: the JSON list the last fetch decoded
    fetch_failed,       \* history: the last fetch was a transport or status error
    tick_start,         \* history: saved_events when the iteration started
    notified,           \* history: events sent to the webhook this iteration
    send_errors,        \* history: positions whose webhook send returned Err
    notify_count,       \* history: sends per id while the id stays listed unchanged
    finalized,          \* history: ids notified as resolved and listed ever since
    unsent_resolved,    \* history: ids whose resolved send failed, listed ever since
    in_flight,          \* the external calls main has started and not yet got back
    tick_kind,          \* history: "failed", "empty" or "listed" fetch; "none" at start
    previous_kind,      \* history: tick_kind of the iteration before this one
    solved_before_empty,\* history: ids saved with solve time that the empty list of
                        \* the iteration before this one evicted
    now,                \* seconds since main started
    deadline,           \* the instant the interval's next tick is due
    prev_start,         \* history: when the iteration before this one began
    cur_start           \* history: when this iteration began

vars ==
    <<pc, saved_events, events, idx, translated_content, message, body, fetch_failed,
      tick_start, notified, send_errors, notify_count, finalized, unsent_resolved,
      in_flight, tick_kind, previous_kind, solved_before_empty, now, deadline,
      prev_start, cur_start>>

clock == <<now, deadline, prev_start, cur_start>>

kinds == <<tick_kind, previous_kind, solved_before_empty>>

\* ---------------------------------------------------------------- helpers

IdsOf(evs) == {evs[i].id : i \in 1..Len(evs)}

\* events.iter(): the i-th event of the iteration.
IterReversed(evs, i) == evs[Len(evs) + 1 - i]

Iter(evs, i) == evs[i]

\* Lines 120-124: the event is skipped when its id is saved with a solve time.
AlreadySolvedBySnapshot(saved, event) == event.solve_time # None

AlreadySolvedIgnoringSaved(saved, event) == FALSE

AlreadySolvedAndUnchanged(saved, event) ==
    /\ event.id \in DOMAIN saved
    /\ saved[event.id].solve_time # None
    /\ saved[event.id] = event

AlreadySolved(saved, event) ==
    event.id \in DOMAIN saved /\ saved[event.id].solve_time # None

\* saved_events.insert(event.id.clone(), event.clone())
InsertIfAbsent(saved, event) ==
    [k \in DOMAIN saved \cup {event.id} |->
        IF k \in DOMAIN saved THEN saved[k] ELSE event]

Insert(saved, event) ==
    [k \in DOMAIN saved \cup {event.id} |-> IF k = event.id THEN event ELSE saved[k]]

\* A future is created: the request goes out.
Started(calls, call) == calls \cup {call}

\* .await on the future: main goes on only when the call has come back.
AwaitedDetached(calls, call) == calls

Awaited(calls, call) == calls \ {call}

\* Lines 174-180: the map after the send of an event has returned Ok (ok) or
\* Err: the event is saved either way.
SavedAfterSendOnlyOnOk(saved, event, ok) == IF ok THEN Insert(saved, event) ELSE saved

SavedAfterSend(saved, event, ok) == Insert(saved, event)

\* Lines 176-178: where main goes on after the send has returned: an Err is
\* logged and the loop goes on to the next event.
AfterWebhookSendReturnsOnErr(ok) == IF ok THEN "for" ELSE "returned"

AfterWebhookSend(ok) == "for"

\* saved_events.retain(|k, _| events.iter().any(|e| e.id == *k))
RetainUnsolved(saved, evs) ==
    [k \in {x \in DOMAIN saved : x \in IdsOf(evs) \/ saved[x].solve_time = None} |->
        saved[k]]

RetainAll(saved, evs) == saved

Retain(saved, evs) == [k \in DOMAIN saved \cap IdsOf(evs) |-> saved[k]]

\* What the status request can come back with.
StatusResponses ==
    {[kind |-> "transport_error", body |-> <<>>],
     [kind |-> "status_error", body |-> <<>>],
     [kind |-> "undecodable", body |-> <<>>]}
    \cup {[kind |-> "ok", body |-> b] : b \in JsonBodies}

\* Lines 101-117: the Vec<Event> of the iteration, and whether the unwrap of
\* resp.json() panics.
StatusFetchStaleOnError(resp) ==
    CASE resp.kind = "undecodable" -> [panic |-> TRUE, events |-> <<>>]
      [] resp.kind = "ok" -> [panic |-> FALSE, events |-> DeserializeEvents(resp.body)]
      [] OTHER ->
            [panic |-> FALSE,
             events |-> <<[id |-> "E1", content |-> "a", event_type |-> "Unknown",
                           time |-> 10, solve_time |-> None]>>]

StatusFetch(resp) ==
    CASE resp.kind = "undecodable" -> [panic |-> TRUE, events |-> <<>>]
      [] resp.kind = "ok" -> [panic |-> FALSE, events |-> DeserializeEvents(resp.body)]
      [] OTHER -> [panic |-> FALSE, events |-> <<>>]

\* ---------------------------------------------------------------- history

Min(a, b) == IF a < b THEN a ELSE b

ContentsOf(evs, id) == {evs[i].content : i \in {j \in 1..Len(evs) : evs[j].id = id}}

ListedOnce(evs, id) == Cardinality({j \in 1..Len(evs) : evs[j].id = id}) = 1

\* The snapshot holds one record of the id, with the content saved for the id
\* when the id is saved: the run of unchanged listings of the id goes on.
ListedUnchanged(saved, evs, id) ==
    /\ ListedOnce(evs, id)
    /\ id \in DOMAIN saved => ContentsOf(evs, id) = {saved[id].content}

\* Ids that were saved unsolved when the iteration started and that the
\* snapshot of the iteration lists with a solve time.
ResolvedTransitions(start, evs) ==
    {id \in DOMAIN start :
        /\ start[id].solve_time = None
        /\ \E i \in 1..Len(evs) : evs[i].id = id /\ evs[i].solve_time # None}

\* Ids of the records that carry a solve time and whose send returned Err.
FailedResolvedSends(evs, errors) ==
    {Iter(evs, i).id : i \in {j \in errors : Iter(evs, j).solve_time # None}}

\* ------------------------------------------------------------------- Init

\* Lines 89-96: empty map, nothing fetched yet, about to await the first tick.
Init ==
    /\ pc = "interval"
    /\ saved_events = <<>>
    /\ events = <<>>
    /\ idx = 1
    /\ translated_content = None
    /\ message = None
    /\ body = <<>>
    /\ fetch_failed = FALSE
    /\ tick_start = <<>>
    /\ notified = <<>>
    /\ send_errors = {}
    /\ notify_count = [id \in Ids |-> 0]
    /\ finalized = {}
    /\ unsent_resolved = {}
    /\ in_flight = {}
    /\ tick_kind = "none"
    /\ previous_kind = "none"
    /\ solved_before_empty = {}
    /\ now = 0
    /\ deadline = 0
    /\ prev_start = None
    /\ cur_start = None

\* ---------------------------------------------------------------- actions

\* Line 99: interval.tick().await returns; the status request is sent.  The
\* Vec<Event> of the iteration before is gone.
IntervalTick ==
    /\ pc = "interval"
    /\ pc' = "fetch"
    /\ events' = <<>>
    /\ body' = <<>>
    /\ fetch_failed' = FALSE
    /\ tick_start' = saved_events
    /\ notified' = <<>>
    /\ send_errors' = {}
    /\ finalized' = finalized \cup ResolvedTransitions(tick_start, events)
    /\ unsent_resolved' = unsent_resolved \cup FailedResolvedSends(events, send_errors)
    /\ idx' = 1
    /\ in_flight' = Started(in_flight, "status_fetch")
    /\ previous_kind' = tick_kind
    /\ solved_before_empty' =
            IF tick_kind \in {"failed", "empty"}
            THEN {id \in DOMAIN tick_start : tick_start[id].solve_time # None}
            ELSE {}
    /\ UNCHANGED clock
    /\ UNCHANGED <<saved_events, translated_content, message, notify_count, tick_kind>>

\* The bookkeeping of a fetch that produced the list evs.
Fetched(evs) ==
    /\ events' = evs
    /\ idx' = 1
    /\ pc' = "for"
    /\ notify_count' =
            [id \in Ids |->
                IF ListedUnchanged(saved_events, evs, id) THEN notify_count[id] ELSE 0]
    /\ finalized' = finalized \cap IdsOf(evs)
    /\ unsent_resolved' = unsent_resolved \cap IdsOf(evs)
    /\ in_flight' = Awaited(in_flight, "status_fetch")
    /\ UNCHANGED clock
    /\ UNCHANGED <<saved_events, translated_content, message, tick_start, notified,
                   send_errors, previous_kind, solved_before_empty>>

\* Lines 101-107: the status request answers 2xx with a list that decodes.
FetchOk ==
    /\ pc = "fetch"
    /\ \E resp \in {r \in StatusResponses : r.kind = "ok"} :
          /\ ~StatusFetch(resp).panic
          /\ Fetched(StatusFetch(resp).events)
          /\ body' = resp.body
          /\ fetch_failed' = FALSE
          /\ tick_kind' = IF resp.body = <<>> THEN "empty" ELSE "listed"

\* Lines 108-116: transport error or non-2xx status: logged, Vec::new().
FetchFailed ==
    /\ pc = "fetch"
    /\ \E resp \in {r \in StatusResponses : r.kind \in {"transport_error", "status_error"}} :
          /\ ~StatusFetch(resp).panic
          /\ Fetched(StatusFetch(resp).events)
          /\ body' = <<>>
          /\ fetch_failed' = TRUE
          /\ tick_kind' = "failed"

\* Line 107: resp.json().await.unwrap() on a body that does not decode.
FetchPanic ==
    /\ pc = "fetch"
    /\ \E resp \in StatusResponses : StatusFetch(resp).panic
    /\ pc' = "panic_fetch"
    /\ in_flight' = Awaited(in_flight, "status_fetch")
    /\ UNCHANGED clock
    /\ UNCHANGED kinds
    /\ UNCHANGED <<saved_events, events, idx, translated_content, message, body,
                   fetch_failed, tick_start, notified, send_errors, notify_count,
                   finalized, unsent_resolved>>

\* Lines 119-123: the event's id is saved with a solve time: continue.
ForSkip ==
    /\ pc = "for"
    /\ idx <= Len(events)
    /\ AlreadySolved(saved_events, Iter(events, idx))
    /\ idx' = idx + 1
    /\ UNCHANGED clock
    /\ UNCHANGED kinds
    /\ UNCHANGED <<pc, saved_events, events, translated_content, message, body,
                   fetch_failed, tick_start, notified, send_errors, notify_count,
                   finalized, unsent_resolved, in_flight>>

\* Lines 119-126: the event is due; the translation request is sent.
ForNotify ==
    /\ pc = "for"
    /\ idx <= Len(events)
    /\ ~AlreadySolved(saved_events, Iter(events, idx))
    /\ pc' = "translate"
    /\ in_flight' = Started(in_flight, "translate")
    /\ UNCHANGED clock
    /\ UNCHANGED kinds
    /\ UNCHANGED <<saved_events, events, idx, translated_content, message, body,
                   fetch_failed, tick_start, notified, send_errors, notify_count,
                   finalized, unsent_resolved>>

\* Lines 126-174: try_translate returns; the message is built and its send starts.
TranslateReturn ==
    /\ pc = "translate"
    /\ \E resp \in DeeplResponses :
          LET r == TryTranslate(resp, Iter(events, idx).content) IN
          /\ ~r.panic
          /\ translated_content' = Some(r.text)
          /\ message' = Some(BuildMessage(Iter(events, idx), r.text))
    /\ pc' = "send"
    /\ in_flight' = Started(Awaited(in_flight, "translate"), "webhook_send")
    /\ UNCHANGED clock
    /\ UNCHANGED kinds
    /\ UNCHANGED <<saved_events, events, idx, body, fetch_failed, tick_start, notified,
                   send_errors, notify_count, finalized, unsent_resolved>>

\* Line 71: resp.json().await.unwrap() inside try_translate panics.
TranslatePanic ==
    /\ pc = "translate"
    /\ \E resp \in DeeplResponses : TryTranslate(resp, Iter(events, idx).content).panic
    /\ pc' = "panic_translate"
    /\ in_flight' = Awaited(in_flight, "translate")
    /\ UNCHANGED clock
    /\ UNCHANGED kinds
    /\ UNCHANGED <<saved_events, events, idx, translated_content, message, body,
                   fetch_failed, tick_start, notified, send_errors, notify_count,
                   finalized, unsent_resolved>>

\* Lines 174-181: the webhook send returns Ok or Err (logged); the event is saved.
WebhookSend ==
    /\ pc = "send"
    /\ \E ok \in BOOLEAN :
          /\ send_errors' = IF ok THEN send_errors ELSE send_errors \cup {idx}
          /\ saved_events' = SavedAfterSend(saved_events, Iter(events, idx), ok)
          /\ pc' = AfterWebhookSend(ok)
    /\ notified' = Append(notified, Iter(events, idx))
    /\ notify_count' =
            [notify_count EXCEPT ![Iter(events, idx).id] =
                IF ListedOnce(events, Iter(events, idx).id)
                THEN Min(@ + 1, MaxCount) ELSE @]
    /\ translated_content' = None
    /\ message' = None
    /\ idx' = idx + 1
    /\ in_flight' = Awaited(in_flight, "webhook_send")
    /\ UNCHANGED clock
    /\ UNCHANGED kinds
    /\ UNCHANGED <<events, body, fetch_failed, tick_start, finalized, unsent_resolved>>

\* Line 184: the loop over the events is over; cleanup old events.
Cleanup ==
    /\ pc = "for"
    /\ idx > Len(events)
    /\ saved_events' = Retain(saved_events, events)
    /\ pc' = "interval"
    /\ UNCHANGED clock
    /\ UNCHANGED kinds
    /\ UNCHANGED <<events, idx, translated_content, message, body, fetch_failed,
                   tick_start, notified, send_errors, notify_count, finalized,
                   unsent_resolved, in_flight>>

Next ==
    \/ IntervalTick
    \/ FetchOk
    \/ FetchFailed
    \/ FetchPanic
    \/ ForSkip
    \/ ForNotify
    \/ TranslateReturn
    \/ TranslatePanic
    \/ WebhookSend
    \/ Cleanup

Spec == Init /\ [][Next]_vars

\* ----------------------------------------------------------------- timing
\* The loop as its clock sees it: when interval.tick() returns, and how long
\* the body of the iteration (lines 101-184) takes.  No request has a timeout.

Max(a, b) == IF a > b THEN a ELSE b

\* tokio's Interval with the missed-tick behaviour of time::interval(), Burst:
\* the deadline after a tick is the deadline of that tick plus the period,
\* also when the tick came late.
NextDeadline(due, at) == due + Period

\* Line 99: interval.tick().await returns once the deadline is reached, at once
\* when it has passed already; the first deadline is the start of main.
TimedTick ==
    /\ pc = "interval"
    /\ now' = Max(now, deadline)
    /\ deadline' = NextDeadline(deadline, now')
    /\ prev_start' = cur_start
    /\ cur_start' = Some(now')
    /\ pc' = "iteration"
    /\ UNCHANGED kinds
    /\ UNCHANGED <<saved_events, events, idx, translated_content, message, body,
                   fetch_failed, tick_start, notified, send_errors, notify_count,
                   finalized, unsent_resolved, in_flight>>

\* Lines 101-184: the body of the iteration runs for d seconds.
IterationRuns ==
    /\ pc = "iteration"
    /\ \E d \in Durations :
          /\ now + d <= MaxTime
          /\ now' = now + d
    /\ pc' = "interval"
    /\ UNCHANGED kinds
    /\ UNCHANGED <<saved_events, events, idx, translated_content, message, body,
                   fetch_failed, tick_start, notified, send_errors, notify_count,
                   finalized, unsent_resolved, in_flight, deadline, prev_start,
                   cur_start>>

NextTiming ==
    \/ TimedTick
    \/ IterationRuns

SpecTiming == Init /\ [][NextTiming]_vars

\* ------------------------------------------------------- claim vocabulary

DistinctIds(evs) == \A i, j \in 1..Len(evs) : evs[i].id = evs[j].id => i = j

\* Positions of the snapshot the loop is done with (skipped, or sent and saved).
Processed == {i \in 1..Len(events) : i < idx}

WasNotified(e) == \E k \in 1..Len(notified) : notified[k] = e

SendsFor(id) == Cardinality({k \in 1..Len(notified) : notified[k].id = id})

\* The id was not saved, or was saved without a solve time, when the iteration began.
DueAtTickStart(id) == id \notin DOMAIN tick_start \/ tick_start[id].solve_time = None

SolvedAtTickStart(id) == id \in DOMAIN tick_start /\ tick_start[id].solve_time # None

FirstRecordOf(evs, id) ==
    evs[CHOOSE i \in 1..Len(evs) :
            evs[i].id = id /\ \A j \in 1..(i - 1) : evs[j].id # id]

TickDone == pc = "interval"

\* ---------------------------------------------------------------------- C1

\* C1: in an iteration whose snapshot has pairwise distinct ids, every event the
\* loop is done with was sent to the webhook if and only if its id was not saved
\* or was saved without a solve time when the iteration began, whatever the
\* event's own solve time and content.
C1_NotifyIffDueAtTickStart ==
    DistinctIds(events) =>
        \A i \in Processed : WasNotified(events[i]) <=> DueAtTickStart(events[i].id)

\* A finished iteration that sent an event carrying a solve time (saved unsolved
\* before) and skipped another one that carries none (saved solved before).
C1_Witness ==
    /\ TickDone
    /\ DistinctIds(events)
    /\ \E i, j \in 1..Len(events) :
          /\ events[i].solve_time # None
          /\ events[i].id \in DOMAIN tick_start
          /\ WasNotified(events[i])
          /\ events[j].solve_time = None
          /\ ~WasNotified(events[j])

\* ---------------------------------------------------------------------- C2

\* C2: while an id stays listed by every snapshot (fetches succeeding, one
\* record of the id per snapshot) with an unchanged content, at most two
\* notifications are sent for it in total.
C2_AtMostTwoNotifications == \A id \in Ids : notify_count[id] <= 2

\* ---------------------------------------------------------------------- C3

\* C3 as stated: a finished iteration that found an id saved unsolved and listed
\* with a solve time has sent exactly one notification for the id, and no
\* iteration sends for an id notified as resolved and listed ever since.
C3_ResolvedNotifiedExactlyOnce ==
    /\ TickDone =>
          \A id \in ResolvedTransitions(tick_start, events) : SendsFor(id) = 1
    /\ \A k \in 1..Len(notified) : notified[k].id \notin finalized

\* C3 amended: when the first record the snapshot holds of an id saved unsolved
\* carries a solve time, the iteration sends at most one notification for the
\* id, exactly one once the loop is done with that record; and no later
\* iteration sends for the id while every snapshot lists it.
C3_ResolvedFirstNotifiedOnce ==
    /\ \A id \in ResolvedTransitions(tick_start, events) :
          FirstRecordOf(events, id).solve_time # None =>
              /\ SendsFor(id) <= 1
              /\ (\E i \in Processed : events[i].id = id) => SendsFor(id) = 1
    /\ \A k \in 1..Len(notified) : notified[k].id \notin finalized

\* A finished iteration that skipped a record without solve time (a reopened
\* event) of an id notified as resolved by an earlier iteration.
C3_Witness ==
    /\ TickDone
    /\ \E i \in 1..Len(events) :
          /\ events[i].id \in finalized
          /\ events[i].solve_time = None
          /\ ~WasNotified(events[i])

\* ---------------------------------------------------------------------- C4

\* C4: at the end of every iteration the saved ids are exactly the ids of the
\* iteration's snapshot.
C4_SavedIdsAreSnapshotIds == TickDone => DOMAIN saved_events = IdsOf(events)

\* A finished iteration that evicted an id saved with a solve time and one
\* saved without, its snapshot listing neither.
C4_Witness ==
    /\ TickDone
    /\ \E a, b \in DOMAIN tick_start \ IdsOf(events) :
          tick_start[a].solve_time # None /\ tick_start[b].solve_time = None
    /\ DOMAIN saved_events = {}

\* ---------------------------------------------------------------------- C5

\* C5: an iteration whose status fetch failed (transport error or non-2xx
\* status) runs on an empty snapshot, sends nothing and ends with nothing saved.
C5_FetchFailureEmptiesState ==
    fetch_failed =>
        /\ events = <<>>
        /\ notified = <<>>
        /\ pc \in {"for", "interval"}
        /\ TickDone => DOMAIN saved_events = {}

\* A finished iteration whose fetch failed while two ids were saved.
C5_Witness ==
    /\ TickDone
    /\ fetch_failed
    /\ DOMAIN tick_start = Ids
    /\ DOMAIN saved_events = {}

\* ---------------------------------------------------------------------- C6

\* C6: the events sent in an iteration are sent in the order of the snapshot:
\* the sent events are picked from the snapshot at strictly increasing positions.
C6_SentInSnapshotOrder ==
    \E f \in [1..Len(notified) -> 1..Len(events)] :
        /\ \A k \in 1..Len(notified) : events[f[k]] = notified[k]
        /\ \A k, l \in 1..Len(notified) : k < l => f[k] < f[l]

\* Two different events sent in one iteration.
C6_Witness ==
    /\ Len(notified) = 2
    /\ notified[1].id # notified[2].id

\* ---------------------------------------------------------------------- C7

\* C7 as stated: after an iteration whose snapshot has pairwise distinct ids,
\* the record saved for each id of the snapshot is the snapshot's record.
C7_SavedIsSnapshot ==
    (TickDone /\ DistinctIds(events)) =>
        \A i \in 1..Len(events) :
            /\ events[i].id \in DOMAIN saved_events
            /\ saved_events[events[i].id] = events[i]

\* C7 amended: after such an iteration the record saved for an id of the
\* snapshot is the snapshot's record when the event was notified, and the
\* record saved before the iteration when the event was skipped because that
\* record carries a solve time.
C7_SavedIsSnapshotUnlessSkipped ==
    (TickDone /\ DistinctIds(events)) =>
        \A i \in 1..Len(events) :
            /\ events[i].id \in DOMAIN saved_events
            /\ saved_events[events[i].id] =
                    IF SolvedAtTickStart(events[i].id)
                    THEN tick_start[events[i].id]
                    ELSE events[i]

\* A finished iteration that skipped an event whose snapshot record differs
\* from the saved one, and notified and saved another.
C7_Witness ==
    /\ TickDone
    /\ DistinctIds(events)
    /\ \E i, j \in 1..Len(events) :
          /\ SolvedAtTickStart(events[i].id)
          /\ events[i] # tick_start[events[i].id]
          /\ saved_events[events[i].id] = tick_start[events[i].id]
          /\ events[j].id \in DOMAIN tick_start
          /\ events[j] # tick_start[events[j].id]
          /\ saved_events[events[j].id] = events[j]

\* ---------------------------------------------------------------------- C8

\* C8: try_translate never fails: whatever the translation request comes back
\* with, the call returns (the original text, or the first result's text).
C8_TryTranslateAlwaysReturns ==
    /\ pc # "panic_translate"
    /\ pc = "send" =>
          translated_content \in
              {Some(Iter(events, idx).content)} \cup
              {Some(r.translations[1]) :
                  r \in {x \in DeeplResponses : Len(x.translations) > 0}}

\* ---------------------------------------------------------------------- C9

\* C9: no answer of the status fetch, the translation call or the webhook send
\* ends the poll loop.
C9_LoopNeverEnds == pc \notin {"panic_fetch", "panic_translate"}

\* --------------------------------------------------------------------- C10

\* C10: a listed event whose type code is neither 1 nor 2 is kept, as an event
\* of type Unknown; it is notified or skipped by the rule of every event; and
\* its message carries the title "Inconnu".
C10_UnknownTypeAccepted ==
    /\ Len(events) = Len(body)
    /\ \A i \in 1..Len(body) :
          body[i].type \notin {1, 2} =>
              /\ events[i].id = body[i].id
              /\ events[i].event_type = "Unknown"
    /\ DistinctIds(events) =>
          \A i \in Processed :
              events[i].event_type = "Unknown" =>
                  (WasNotified(events[i]) <=> DueAtTickStart(events[i].id))
    /\ (pc = "send" /\ Iter(events, idx).event_type = "Unknown") =>
          /\ message = Some(BuildMessage(Iter(events, idx), translated_content[1]))
          /\ message[1].title = "Inconnu"

\* The message of an event listed with the unknown code 7 is being sent.
C10_Witness ==
    /\ pc = "send"
    /\ body[idx].type = 7
    /\ message # None
    /\ message[1].title = "Inconnu"

\* --------------------------------------------------------------------- C11

\* What the loop has saved and sent after the first n records of the list evs,
\* starting from the map start: each record is tested against the map as the
\* records before it left it.
RECURSIVE Replayed(_, _, _)
Replayed(start, evs, n) ==
    IF n = 0
    THEN [saved |-> start, sent |-> <<>>]
    ELSE LET p == Replayed(start, evs, n - 1)
             e == evs[n]
         IN  IF e.id \in DOMAIN p.saved /\ p.saved[e.id].solve_time # None
             THEN p
             ELSE [saved |-> [k \in DOMAIN p.saved \cup {e.id} |->
                                 IF k = e.id THEN e ELSE p.saved[k]],
                   sent |-> Append(p.sent, e)]

InLoop == pc \in {"for", "translate", "send", "panic_translate"}

\* C11 as stated: while the events of an iteration are processed the saved map
\* is the map of the iteration's start.
C11_SavedFrozenDuringTick == InLoop => saved_events = tick_start

\* C11 amended: the saved map changes during the iteration: every sent event is
\* saved as soon as its send has returned, ahead of the records that follow, so
\* a record is tested against the map of the iteration's start overlaid with
\* the records sent before it; only the eviction waits for the end of the loop.
C11_SavedFollowsSends ==
    InLoop =>
        /\ saved_events = Replayed(tick_start, events, idx - 1).saved
        /\ notified = Replayed(tick_start, events, idx - 1).sent
        /\ DOMAIN tick_start \subseteq DOMAIN saved_events

\* The second of two records of one id was skipped because the first, which
\* carries a solve time, had been sent and saved in the same iteration; the id
\* was not saved when the iteration started.
C11_Witness ==
    /\ pc = "for"
    /\ idx = 3
    /\ events[1].id = events[2].id
    /\ events[1].id \notin DOMAIN tick_start
    /\ events[1].solve_time # None
    /\ notified = <<events[1]>>

\* --------------------------------------------------------------------- C12

\* C12: after a webhook send of the iteration has returned Err, main is still
\* in the loop or past it: the records after the failed one are tested and, if
\* due, sent in the order of the list, and once the loop is over every record
\* has been gone through and the ids the list lacks have been evicted.
C12_SendFailureDoesNotStopTick ==
    send_errors # {} =>
        /\ pc \in {"for", "translate", "send", "panic_translate", "interval"}
        /\ \A i \in send_errors : i < idx
        /\ notified = Replayed(tick_start, events, idx - 1).sent
        /\ TickDone =>
              /\ idx = Len(events) + 1
              /\ DOMAIN saved_events = IdsOf(events)

\* A finished iteration whose first send returned Err, that sent the second
\* record after it and evicted an id its list lacks.
C12_Witness ==
    /\ TickDone
    /\ 1 \in send_errors
    /\ Len(notified) = 2
    /\ DOMAIN tick_start \ DOMAIN saved_events # {}

\* --------------------------------------------------------------------- C16

\* The map a finished iteration leaves, from the map it started with and its list.
Reconciled(start, evs) ==
    LET r == Replayed(start, evs, Len(evs)).saved
    IN  [k \in {x \in DOMAIN r : \E i \in 1..Len(evs) : evs[i].id = x} |-> r[k]]

\* C16: the map a finished iteration leaves is a function of the map it started
\* with and of its list alone, whatever the translation calls and the sends
\* returned; and an id whose record with a solve time was sent with an Err is
\* not sent again while every list holds the id.
C16_SavedIndependentOfOutcomes ==
    /\ TickDone => saved_events = Reconciled(tick_start, events)
    /\ \A k \in 1..Len(notified) : notified[k].id \notin unsent_resolved

\* A finished iteration that skipped the record of an id whose send with a
\* solve time had returned Err in an earlier iteration.
C16_Witness ==
    /\ TickDone
    /\ \E i \in 1..Len(events) :
          /\ events[i].id \in unsent_resolved
          /\ SendsFor(events[i].id) = 0

\* --------------------------------------------------------------------- C13

\* C13: at most one external call is in flight at any time: the status fetch
\* alone, an event's translation alone (every earlier event's send has come
\* back), or an event's send alone, started only when its translation has
\* returned a text; none between the events and between the iterations.
C13_OneCallAtATime ==
    /\ Cardinality(in_flight) <= 1
    /\ pc = "fetch" => in_flight = {"status_fetch"}
    /\ pc = "translate" => in_flight = {"translate"} /\ translated_content = None
    /\ pc = "send" => in_flight = {"webhook_send"} /\ translated_content # None
    /\ pc \in {"for", "interval", "panic_fetch", "panic_translate"} => in_flight = {}
    /\ InLoop => Len(notified) <= idx - 1

\* The translation of the second record is in flight; the send of the first
\* has come back.
C13_Witness ==
    /\ pc = "translate"
    /\ idx = 2
    /\ Len(notified) = 1
    /\ in_flight = {"translate"}

\* --------------------------------------------------------------------- C14

\* C14: the message being sent is built from the record of the list, not from
\* the saved one: a record with a solve time gives the field "Résolu depuis"
\* with that solve time, the status "Résolu" and the colour 65280; a record
\* without gives "Depuis" with the record's time, "Hors ligne" and 16711680.
C14_MessageReflectsSnapshotRecord ==
    pc = "send" =>
        LET e == events[idx]
            m == message[1]
        IN  /\ message # None
            /\ Len(m.fields) = 2
            /\ m.fields[2].name = "Status"
            /\ e.solve_time # None =>
                  /\ m.fields[1].name = "Résolu depuis"
                  /\ m.fields[1].value = <<"<t:", e.solve_time[1], ":R>">>
                  /\ m.fields[2].value = "Résolu :white_check_mark:"
                  /\ m.color = "65280"
            /\ e.solve_time = None =>
                  /\ m.fields[1].name = "Depuis"
                  /\ m.fields[1].value = <<"<t:", e.time, ":R>">>
                  /\ m.fields[2].value = "Hors ligne :negative_squared_cross_mark:"
                  /\ m.color = "16711680"

\* The message of a record with a solve time is being sent while the record
\* saved for its id has none.
C14_Witness ==
    /\ pc = "send"
    /\ events[idx].solve_time # None
    /\ events[idx].id \in DOMAIN saved_events
    /\ saved_events[events[idx].id].solve_time = None
    /\ message[1].fields[1].name = "Résolu depuis"

\* --------------------------------------------------------------------- C15

\* C15: two iterations never start less than one period apart.
C15_StartsAPeriodApart ==
    (prev_start # None /\ cur_start # None) => cur_start[1] - prev_start[1] >= Period

\* --------------------------------------------------------------------- C17

\* C17: no step changes the record saved with a solve time for an id, or sends
\* an event of that id; the record only goes away, in the cleanup of an
\* iteration whose list lacks the id.
C17_SolvedRecordFrozen ==
    [][\A id \in Ids :
          (id \in DOMAIN saved_events /\ saved_events[id].solve_time # None) =>
              /\ id \in DOMAIN saved_events' => saved_events'[id] = saved_events[id]
              /\ id \notin DOMAIN saved_events' =>
                    (pc = "for" /\ idx > Len(events) /\ id \notin IdsOf(events))
              /\ SendsFor(id)' <= SendsFor(id)
              /\ pc' \in {"translate", "send"} => Iter(events, idx).id # id]_vars

\* A finished iteration whose list held, for an id saved with a solve time, a
\* record without solve time and with another content: the saved record is the
\* old one and nothing was sent for the id.
C17_Witness ==
    /\ TickDone
    /\ \E i \in 1..Len(events) :
          /\ SolvedAtTickStart(events[i].id)
          /\ events[i].solve_time = None
          /\ events[i].content # tick_start[events[i].id].content
          /\ saved_events[events[i].id] = tick_start[events[i].id]
          /\ SendsFor(events[i].id) = 0

\* --------------------------------------------------------------------- C18

====
